---- MODULE Spec2Model ----
(***************************************************************************)
(* Model of svg-path-renderer (src/src/index.ts): the render scheduler of  *)
(* setupSvgRenderer (ResizeObserver, transition/animation polling loops,   *)
(* destroy) and the deduplicating sink createSvgElement, acting on one     *)
(* target <svg> element `el` and its watched ancestor `parentElement`.     *)
(*                                                                         *)
(* The DOM state the code reads and writes is modelled directly: the boxes *)
(* returned by getBoundingClientRect, the data-width / data-height         *)
(* attributes of el (the render cache of the code), the <path> children of *)
(* el, the listeners and requestAnimationFrame callbacks that are pending. *)
(* Not modelled: the viewBox attribute and the backdrop-blur mask          *)
(* (index.ts 147-150, 173-205), which no other code reads.                 *)
(*                                                                         *)
(* The path compiler createSvgPaths and the expression evaluator           *)
(* evalExpression are modelled on strings, character by character.         *)
(***************************************************************************)
EXTENDS Integers, Sequences, FiniteSets, TLC

VARIABLES
    elBox,        \* el.getBoundingClientRect(): [width, height]
    parentBox,    \* parentElement.getBoundingClientRect()
    parentIsEl,   \* findRelativeParent(el) returned null: parentElement = el
    attrs,        \* attributes of el: name -> string, for the names that are set
    children,     \* the <path> elements of el, in document order
    sessions,     \* one entry per setupSvgRenderer call on el, in call order
    loops,        \* per source, the loop closures with a frame callback pending
    cache,        \* history: the Dimensions of the last committed render
    last,         \* history: what the last handler did
    job,          \* the arguments of a createSvgPaths call under study
    out           \* its result, << >> before the call

vars == <<elBox, parentBox, parentIsEl, attrs, children, sessions, loops, cache, last,
          job, out>>

----------------------------------------------------------------------------
(* Bounds of the model *)

MaxDim == 1        \* widths and heights range over 0..MaxDim
MaxLoops == 2      \* loop closures alive at once, all sources together
MaxSessions == 2   \* setupSvgRenderer calls on el

Dim == 0..MaxDim
Box == [width : Dim, height : Dim]
Sources == {"transition", "animation"}

Null == <<>>       \* getAttribute of an attribute that is not set

\* No render committed yet.
NoCache == [set |-> FALSE, width |-> 0, height |-> 0]

\* The Paths arguments given to setupSvgRenderer: two sub-paths for the first
\* session, one or two for a later one.  Operands are strings, written as
\* sequences of characters.
FirstPaths ==
    << [name |-> "b", path |-> << <<"M", <<"0">>, <<"0">> >>,
                                  <<"L", <<"1", "0", "0", "%">>, <<"0">> >> >>],
       [name |-> "c", path |-> << <<"M", <<"0">>, <<"1", "0", "0", "%">> >> >>] >>

OtherPaths ==
    << [name |-> "a", path |-> << <<"M", <<"0">>, <<"0">> >>,
                                  <<"L", <<"1", "0", "0", "%">>, <<"1", "0", "0", "%">> >> >>] >>

\* A session holds its Paths argument by its index in this table.
PathsTable == <<FirstPaths, OtherPaths>>

----------------------------------------------------------------------------
(* Number.prototype.toString for a non-negative integer: its decimal digits *)

Digit(d) == CASE d = 0 -> "0" [] d = 1 -> "1" [] d = 2 -> "2" [] d = 3 -> "3"
              [] d = 4 -> "4" [] d = 5 -> "5" [] d = 6 -> "6" [] d = 7 -> "7"
              [] d = 8 -> "8" [] d = 9 -> "9"

RECURSIVE toString(_)
toString(n) == IF n < 10 THEN <<Digit(n)>>
               ELSE Append(toString(n \div 10), Digit(n % 10))

getAttribute(a, name) == IF name \in DOMAIN a THEN a[name] ELSE Null

setAttribute(a, name, value) ==
    [n \in (DOMAIN a) \cup {name} |-> IF n = name THEN value ELSE a[n]]

----------------------------------------------------------------------------
(* JavaScript numbers: a finite value is the exact fraction n / d, d > 0;  *)
(* NaN and the two infinities are values of their own.  Rounding of        *)
(* doubles and the sign of zero are not modelled.                          *)

RECURSIVE Gcd(_, _)
Gcd(a, b) == IF b = 0 THEN a ELSE Gcd(b, a % b)

Abs(n) == IF n < 0 THEN -n ELSE n

NaN == [k |-> "nan", n |-> 0, d |-> 1]
Inf(sign) == [k |-> "inf", n |-> sign, d |-> 1]

\* The fraction n / d in lowest terms, d # 0.
Fin(n, d) ==
    LET g == Gcd(Abs(n), Abs(d))
        s == IF d < 0 THEN -1 ELSE 1
    IN [k |-> "fin", n |-> (s * n) \div g, d |-> (s * d) \div g]

Whole(n) == Fin(n, 1)

Sign(a) == IF a.n < 0 THEN -1 ELSE 1

IsZero(a) == a.k = "fin" /\ a.n = 0

Neg(a) == IF a.k = "nan" THEN NaN ELSE [a EXCEPT !.n = -a.n]

Add(a, b) ==
    CASE a.k = "nan" \/ b.k = "nan" -> NaN
      [] a.k = "inf" /\ b.k = "inf" -> IF a.n = b.n THEN a ELSE NaN
      [] a.k = "inf" -> a
      [] b.k = "inf" -> b
      [] OTHER -> Fin(a.n * b.d + b.n * a.d, a.d * b.d)

Sub(a, b) == Add(a, Neg(b))

Mul(a, b) ==
    CASE a.k = "nan" \/ b.k = "nan" -> NaN
      [] a.k = "inf" \/ b.k = "inf" ->
            IF IsZero(a) \/ IsZero(b) THEN NaN ELSE Inf(Sign(a) * Sign(b))
      [] OTHER -> Fin(a.n * b.n, a.d * b.d)

Div(a, b) ==
    CASE a.k = "nan" \/ b.k = "nan" -> NaN
      [] a.k = "inf" -> IF b.k = "inf" THEN NaN ELSE Inf(Sign(a) * Sign(b))
      [] b.k = "inf" -> Whole(0)
      [] b.n = 0 -> IF a.n = 0 THEN NaN ELSE Inf(Sign(a))
      [] OTHER -> Fin(a.n * b.d, a.d * b.n)

RECURSIVE Pow10(_)
Pow10(e) == IF e = 0 THEN 1 ELSE 10 * Pow10(e - 1)

----------------------------------------------------------------------------
(* Strings are sequences of one-character strings. *)

Digits == {"0", "1", "2", "3", "4", "5", "6", "7", "8", "9"}

DigitVal(c) == CASE c = "0" -> 0 [] c = "1" -> 1 [] c = "2" -> 2 [] c = "3" -> 3
                 [] c = "4" -> 4 [] c = "5" -> 5 [] c = "6" -> 6 [] c = "7" -> 7
                 [] c = "8" -> 8 [] c = "9" -> 9

At(s, i) == IF i \in 1..Len(s) THEN s[i] ELSE "eof"

\* String.prototype.includes for a one-character argument.
includes(s, c) == \E i \in 1..Len(s) : s[i] = c

\* x.match(/[+\-*/]/): the string holds an operator character.
matchOperator(s) == \E i \in 1..Len(s) : s[i] \in {"+", "-", "*", "/"}

StartsWithAt(s, i, pat) ==
    /\ i + Len(pat) - 1 <= Len(s)
    /\ \A j \in 1..Len(pat) : s[i + j - 1] = pat[j]

\* String.prototype.replace(/pat/g, rep) for a literal pattern: every match,
\* left to right, the scan resuming after each match.
RECURSIVE replaceFrom(_, _, _, _)
replaceFrom(s, i, pat, rep) ==
    IF i > Len(s) THEN << >>
    ELSE IF StartsWithAt(s, i, pat)
         THEN rep \o replaceFrom(s, i + Len(pat), pat, rep)
         ELSE <<s[i]>> \o replaceFrom(s, i + 1, pat, rep)

replaceAll(s, pat, rep) == replaceFrom(s, 1, pat, rep)

RECURSIVE SkipSpaces(_, _)
SkipSpaces(s, i) == IF At(s, i) = " " THEN SkipSpaces(s, i + 1) ELSE i

\* The run of decimal digits of s from position i: its value, its length and
\* the position after it.
RECURSIVE ScanDigits(_, _, _, _)
ScanDigits(s, i, n, len) ==
    IF At(s, i) \in Digits
    THEN ScanDigits(s, i + 1, 10 * n + DigitVal(s[i]), len + 1)
    ELSE [n |-> n, len |-> len, i |-> i]

NoDigits(i) == [n |-> 0, len |-> 0, i |-> i]

\* The fraction digits after the integer digits ip, if a dot follows them.
ScanFraction(s, ip) ==
    IF At(s, ip.i) = "." THEN ScanDigits(s, ip.i + 1, 0, 0) ELSE NoDigits(ip.i)

\* The position of the exponent digits when an e or E is at k, else k.
ExponentStart(s, k) ==
    IF At(s, k) \in {"e", "E"}
    THEN (IF At(s, k + 1) \in {"+", "-"} THEN k + 2 ELSE k + 1)
    ELSE k

\* The exponent digits; none when there is no e, or no digit after it.
ScanExponent(s, k) ==
    IF ExponentStart(s, k) > k THEN ScanDigits(s, ExponentStart(s, k), 0, 0)
    ELSE NoDigits(k)

Mantissa(ip, fp) == Fin(ip.n * Pow10(fp.len) + fp.n, Pow10(fp.len))

\* The mantissa m scaled by the exponent ep that starts after position k.
Scaled(s, m, k, ep) ==
    IF ep.len = 0 THEN m
    ELSE IF At(s, k + 1) = "-" THEN Div(m, Whole(Pow10(ep.n)))
    ELSE Mul(m, Whole(Pow10(ep.n)))

NumberOf(s, i, ip, fp, ep) ==
    [ok |-> ip.len + fp.len > 0,
     v |-> Scaled(s, Mantissa(ip, fp), fp.i, ep),
     i |-> IF ep.len > 0 THEN ep.i ELSE fp.i,
     leadingZero |-> ip.len > 1 /\ s[i] = "0"]

NumberAfterFraction(s, i, ip, fp) == NumberOf(s, i, ip, fp, ScanExponent(s, fp.i))

NumberAfterDigits(s, i, ip) == NumberAfterFraction(s, i, ip, ScanFraction(s, ip))

\* A decimal number at position i: digits, an optional fraction, an optional
\* exponent.  ok is false when there is no digit at all.
ScanNumber(s, i) == NumberAfterDigits(s, i, ScanDigits(s, i, 0, 0))

SignEnd(s, i) == IF At(s, i) \in {"+", "-"} THEN i + 1 ELSE i

SignedNumber(neg, r) ==
    IF ~r.ok THEN NaN ELSE IF neg THEN Neg(r.v) ELSE r.v

parseFloatFrom(s, i) ==
    IF StartsWithAt(s, SignEnd(s, i), <<"I", "n", "f", "i", "n", "i", "t", "y">>)
    THEN Inf(IF At(s, i) = "-" THEN -1 ELSE 1)
    ELSE SignedNumber(At(s, i) = "-", ScanNumber(s, SignEnd(s, i)))

\* parseFloat of a string: the longest numeric prefix after leading blanks.
parseFloat(s) == parseFloatFrom(s, SkipSpaces(s, 1))

----------------------------------------------------------------------------
(* Function(`"use strict"; return (${replaced});`)(): the arithmetic part  *)
(* of JavaScript expressions, parsed with JavaScript's precedence: numeric *)
(* literals, + - * /, unary + and -, parentheses.  Anything else in the    *)
(* text is a failure here: an identifier left in the text throws a         *)
(* ReferenceError, ++ and -- have no assignable operand, a // or /*        *)
(* comment swallows the closing parenthesis, a strict-mode literal may not *)
(* start with a zero digit.  Operands that are valid JavaScript beyond     *)
(* that (the ** and comma operators, global names, regular expressions)    *)
(* are outside the operand sets of this model.                             *)

Failed == [ok |-> FALSE, v |-> NaN, i |-> 0]

Parsed(v, i) == [ok |-> TRUE, v |-> v, i |-> i]

RECURSIVE ParseExpr(_, _), ExprRest(_, _, _), TermRest(_, _, _), ParseUnary(_, _)

\* An additive operator at j that is not part of ++ or --.
IsAdditive(s, j) == At(s, j) \in {"+", "-"} /\ At(s, j + 1) # At(s, j)

\* A multiplicative operator at j that is not part of ** or of a comment.
IsMultiplicative(s, j) ==
    \/ At(s, j) = "*" /\ At(s, j + 1) # "*"
    \/ At(s, j) = "/" /\ At(s, j + 1) \notin {"/", "*"}

\* The parenthesis that must close the expression e.
Closing(s, e) ==
    IF e.ok /\ At(s, SkipSpaces(s, e.i)) = ")"
    THEN Parsed(e.v, SkipSpaces(s, e.i) + 1)
    ELSE Failed

\* A numeric literal r of strict-mode code.
Literal(r) == IF r.ok /\ ~r.leadingZero THEN Parsed(r.v, r.i) ELSE Failed

PrimaryAt(s, j) ==
    IF At(s, j) = "("
    THEN Closing(s, ParseExpr(s, j + 1))
    ELSE IF At(s, j) \in Digits \/ (At(s, j) = "." /\ At(s, j + 1) \in Digits)
    THEN Literal(ScanNumber(s, j))
    ELSE Failed

ParsePrimary(s, i) == PrimaryAt(s, SkipSpaces(s, i))

\* The unary operator op applied to the operand u.
Signed(op, u) ==
    IF ~u.ok THEN Failed ELSE Parsed(IF op = "-" THEN Neg(u.v) ELSE u.v, u.i)

UnaryAt(s, j) ==
    IF IsAdditive(s, j) THEN Signed(s[j], ParseUnary(s, j + 1)) ELSE ParsePrimary(s, j)

ParseUnary(s, i) == UnaryAt(s, SkipSpaces(s, i))

\* acc op u, and the rest of the term.
TermStep(s, acc, op, u) ==
    IF ~u.ok THEN Failed
    ELSE TermRest(s, IF op = "*" THEN Mul(acc, u.v) ELSE Div(acc, u.v), u.i)

TermRestAt(s, acc, j) ==
    IF IsMultiplicative(s, j) THEN TermStep(s, acc, s[j], ParseUnary(s, j + 1))
    ELSE Parsed(acc, j)

TermRest(s, acc, i) == TermRestAt(s, acc, SkipSpaces(s, i))

TermFrom(s, u) == IF u.ok THEN TermRest(s, u.v, u.i) ELSE Failed

ParseTerm(s, i) == TermFrom(s, ParseUnary(s, i))

\* acc op t, and the rest of the expression.
ExprStep(s, acc, op, t) ==
    IF ~t.ok THEN Failed
    ELSE ExprRest(s, IF op = "+" THEN Add(acc, t.v) ELSE Sub(acc, t.v), t.i)

ExprRestAt(s, acc, j) ==
    IF IsAdditive(s, j) THEN ExprStep(s, acc, s[j], ParseTerm(s, j + 1))
    ELSE Parsed(acc, j)

ExprRest(s, acc, i) == ExprRestAt(s, acc, SkipSpaces(s, i))

ExprFrom(s, t) == IF t.ok THEN ExprRest(s, t.v, t.i) ELSE Failed

ParseExpr(s, i) == ExprFrom(s, ParseTerm(s, i))

\* The result r of parsing text, which must be one expression up to its end.
Completed(text, r) ==
    IF r.ok /\ SkipSpaces(text, r.i) > Len(text) THEN r ELSE Failed

RunText(text) == Completed(text, ParseExpr(text, 1))

\* The text `(${replaced})` as one expression.
RunFunction(replaced) == RunText(<<"(">> \o replaced \o <<")">>)

Chars_width == <<"w", "i", "d", "t", "h">>
Chars_height == <<"h", "e", "i", "g", "h", "t">>
Chars_100 == <<"1", "0", "0">>

\* expr.replace(/([\d.]+)%/g, ...) of evalExpression (index.ts 28-31): each
\* run of digits and dots before a % becomes "(run / 100)".  createSvgPaths
\* has rewritten every % before the call, so the pattern has no match there.
RECURSIVE RunEnd(_, _)
RunEnd(s, i) == IF At(s, i) \in Digits \cup {"."} THEN RunEnd(s, i + 1) ELSE i

RECURSIVE replacePercent(_, _), replaceRun(_, _, _)
replaceRun(s, i, e) ==
    IF e > i /\ At(s, e) = "%"
    THEN <<"(">> \o SubSeq(s, i, e - 1) \o <<" ", "/", " ">> \o Chars_100
         \o <<")">> \o replacePercent(s, e + 1)
    ELSE IF e > i THEN SubSeq(s, i, e - 1) \o replacePercent(s, e)
    ELSE <<s[i]>> \o replacePercent(s, i + 1)

replacePercent(s, i) == IF i > Len(s) THEN << >> ELSE replaceRun(s, i, RunEnd(s, i))

\* The value of the try block, or the 0 of the catch block.
Caught(r) == IF r.ok THEN r.v ELSE Whole(0)

\* evalExpression (index.ts 18-41): the substitutions, then the evaluation.
evalExpression(expr, width, height) ==
    Caught(RunFunction(
        replaceAll(
            replaceAll(
                replaceAll(replacePercent(expr, 1), Chars_width, toString(width)),
                Chars_height, toString(height)),
            Chars_100, Chars_100)))

----------------------------------------------------------------------------
(* parseInt(numX) of a number: the number is converted to a string, whose  *)
(* leading integer is read.  Number-to-string uses the exponent form       *)
(* d.ddde-k below 1e-6, of which parseInt reads the first digit.           *)

RECURSIVE LeadingDigit(_, _)
LeadingDigit(n, d) == IF n >= d THEN n \div d ELSE LeadingDigit(10 * n, d)

parseIntNumber(v) ==
    IF v.k # "fin" THEN NaN
    ELSE LET a == Abs(v.n)
         IN IF a # 0 /\ 1000000 * a < v.d
            THEN Whole(Sign(v) * LeadingDigit(a, v.d))
            ELSE Whole(Sign(v) * (a \div v.d))

\* String(n) for an integer or NaN, as the template literal prints it.
numberToString(v) ==
    IF v.k = "nan" THEN <<"N", "a", "N">>
    ELSE IF v.n < 0 THEN <<"-">> \o toString(-v.n)
    ELSE toString(v.n)

\* Variant: every % is rewritten with width, on the y operand too.
percentOfWidth(axis) == Chars_width

\* The symbol the % of an operand of the given axis is rewritten to.
percentOf(axis) == IF axis = "x" THEN Chars_width ELSE Chars_height

\* parsedX / numX of createSvgPaths (index.ts 63-83) for one operand.
resolve(operand, axis, width, height) ==
    IF includes(operand, "%") \/ matchOperator(operand)
    THEN evalExpression(
             replaceAll(operand, <<"%">>,
                        <<"*", " ">> \o percentOf(axis) \o <<" ", "/", " ">> \o Chars_100),
             width, height)
    ELSE parseFloat(operand)

\* One command: `${cmd} ${parseInt(numX)},${parseInt(numY)}` (index.ts 85).
compileCommand(c, width, height) ==
    <<c[1], " ">> \o numberToString(parseIntNumber(resolve(c[2], "x", width, height)))
    \o <<",">> \o numberToString(parseIntNumber(resolve(c[3], "y", width, height)))

\* The commands of one sub-path joined with one blank.
RECURSIVE joinCommands(_, _, _, _)
joinCommands(path, i, width, height) ==
    IF i > Len(path) THEN << >>
    ELSE (IF i > 1 THEN <<" ">> ELSE << >>)
         \o compileCommand(path[i], width, height)
         \o joinCommands(path, i + 1, width, height)

\* createSvgPaths (index.ts 49-90): one entry per sub-path, in order, its
\* path replaced by the compiled string; the other fields pass through.
createSvgPaths(paths, width, height) ==
    [i \in 1..Len(paths) |->
        [paths[i] EXCEPT !.path = joinCommands(paths[i].path, 1, width, height)]]

\* createSvgPaths({paths, width, height}) for each Paths argument of the
\* table and each box, computed once.
CompiledTable ==
    [p \in 1..Len(PathsTable) |->
        [w \in Dim |-> [h \in Dim |-> createSvgPaths(PathsTable[p], w, h)]]]

----------------------------------------------------------------------------
(* createSvgElement *)

\* Variant: the earlier <path> elements are not removed.
KeepPaths(ch) == ch

\* el.querySelectorAll("path").forEach((path) => path.remove()): what is left
ClearPaths(ch) == <<>>

\* The elements of ch, marked as coming from an earlier render.
Aged(ch) == [i \in 1..Len(ch) |-> [ch[i] EXCEPT !.fresh = FALSE]]

\* Variant: && in place of ||, a render only when both axes changed.
ChangedBothAxes(a, width, height) ==
    /\ getAttribute(a, "data-width") # toString(width)
    /\ getAttribute(a, "data-height") # toString(height)

\* The dimension check of createSvgElement (index.ts 140): render or skip.
Changed(a, width, height) ==
    \/ getAttribute(a, "data-width") # toString(width)
    \/ getAttribute(a, "data-height") # toString(height)

\* createSvgElement on the DOM state dom = [attrs, children, cache, sink];
\* paths is the index of the Paths argument in PathsTable.
createSvgElement(dom, paths, width, height) ==
    IF Changed(dom.attrs, width, height)
    THEN LET a1 == setAttribute(dom.attrs, "data-width", toString(width))
             a2 == setAttribute(a1, "data-height", toString(height))
             kept == Aged(ClearPaths(dom.children))
             made == CompiledTable[paths][width][height]
             new == [i \in 1..Len(made) |-> [d |-> made[i].path, fresh |-> TRUE]]
         IN [attrs |-> a2,
             children |-> kept \o new,
             cache |-> [set |-> TRUE, width |-> width, height |-> height],
             sink |-> TRUE]
    ELSE dom

\* Variant: the render closure measures the watched ancestor.
SampledParent == parentBox

\* The box the render closure samples: el.getBoundingClientRect().
Sampled == elBox

\* The render closure of session s (index.ts 235-247).
render(dom, s) ==
    createSvgElement(dom, sessions[s].paths, Sampled.width, Sampled.height)

Dom == [attrs |-> attrs, children |-> children, cache |-> cache, sink |-> FALSE]

parentWidth == toString(parentBox.width)
parentHeight == toString(parentBox.height)

\* Variant: the end listener compares the width only.
SettledWidthOnly == parentWidth = getAttribute(attrs, "data-width")

\* The check of the transitionend / animationend listeners (index.ts 278-281).
Settled ==
    /\ parentWidth = getAttribute(attrs, "data-width")
    /\ parentHeight = getAttribute(attrs, "data-height")

----------------------------------------------------------------------------
(* History record of the last handler *)

Did(op, src, attempt, sink) ==
    [op |-> op, src |-> src, attempt |-> attempt, sink |-> sink]

Idle == Did("none", "none", FALSE, FALSE)

Commit(dom) ==
    /\ attrs' = dom.attrs
    /\ children' = dom.children
    /\ cache' = dom.cache

TotalLoops == Len(loops["transition"]) + Len(loops["animation"])

\* No createSvgPaths call is under study.
NoJob == [x |-> <<"0">>, y |-> <<"0">>, width |-> 0, height |-> 0]

----------------------------------------------------------------------------
(* State after the first setupSvgRenderer({el, paths}) has returned *)

Init ==
    /\ elBox \in Box
    /\ parentIsEl \in BOOLEAN
    /\ parentBox \in Box
    /\ parentIsEl => parentBox = elBox
    /\ attrs = << >>
    /\ children = << >>
    /\ sessions = << [paths |-> 1, connected |-> TRUE, destroyed |-> FALSE,
                      pending |-> (elBox # [width |-> 0, height |-> 0])] >>
    /\ loops = [src \in Sources |-> << >>]
    /\ cache = NoCache
    /\ last = Did("setup", "none", FALSE, FALSE)
    /\ job = NoJob
    /\ out = << >>

----------------------------------------------------------------------------
(* Environment: layout changes the boxes *)

\* Layout steps change one axis of one box; a change of both is two steps.
OneAxis(a, b) == (a.width = b.width) # (a.height = b.height)

\* The target's box changes; every connected ResizeObserver has an entry to deliver.
ElResize ==
    \E b \in Box :
        /\ OneAxis(elBox, b)
        /\ elBox' = b
        /\ parentBox' = IF parentIsEl THEN b ELSE parentBox
        /\ sessions' = [s \in 1..Len(sessions) |->
                          [sessions[s] EXCEPT !.pending = sessions[s].connected]]
        /\ last' = Idle
        /\ UNCHANGED <<parentIsEl, attrs, children, loops, cache, job, out>>

\* The watched ancestor's box changes while the target's box does not.
ParentResize ==
    \E b \in Box :
        /\ ~parentIsEl
        /\ OneAxis(parentBox, b)
        /\ parentBox' = b
        /\ last' = Idle
        /\ UNCHANGED <<elBox, parentIsEl, attrs, children, sessions, loops, cache, job, out>>

----------------------------------------------------------------------------
(* Handlers of setupSvgRenderer *)

\* The ResizeObserver callback of session s (index.ts 252-257), one entry.
ResizeNotify(s) ==
    /\ sessions[s].connected
    /\ sessions[s].pending
    /\ LET dom == render(Dom, s)
       IN /\ Commit(dom)
          /\ last' = Did("resize", "resize", TRUE, dom.sink)
    /\ sessions' = [sessions EXCEPT ![s].pending = FALSE]
    /\ UNCHANGED <<elBox, parentBox, parentIsEl, loops, job, out>>

\* el.render(): the render closure of the latest setup (index.ts 249).
ManualRender ==
    /\ LET dom == render(Dom, Len(sessions))
       IN /\ Commit(dom)
          /\ last' = Did("render", "manual", TRUE, dom.sink)
    /\ UNCHANGED <<elBox, parentBox, parentIsEl, sessions, loops, job, out>>

\* One listener of a start event: a new closure with running = true, its
\* first loop() call, and its once-listener for the end event.
NewLoop(s) == [session |-> s, running |-> TRUE, listening |-> TRUE]

RECURSIVE StartListeners(_, _, _)
StartListeners(s, dom, lps) ==
    IF s > Len(sessions) THEN [dom |-> dom, loops |-> lps]
    ELSE StartListeners(s + 1, render(dom, s), Append(lps, NewLoop(s)))

\* transitionstart / animationstart dispatched on parentElement: the listener
\* of every setup runs (index.ts 262-288, 291-315); none is ever removed.
Start(src) ==
    /\ TotalLoops + Len(sessions) <= MaxLoops
    /\ LET r == StartListeners(1, Dom, loops[src])
       IN /\ Commit(r.dom)
          /\ loops' = [loops EXCEPT ![src] = r.loops]
          /\ last' = Did("start", src, TRUE, r.dom.sink)
    /\ UNCHANGED <<elBox, parentBox, parentIsEl, sessions, job, out>>

RemoveAt(seq, i) == SubSeq(seq, 1, i - 1) \o SubSeq(seq, i + 1, Len(seq))

\* The requestAnimationFrame callback loop() of the i-th closure of src.
Frame(src, i) ==
    /\ i \in 1..Len(loops[src])
    /\ IF ~loops[src][i].running
       THEN /\ loops' = [loops EXCEPT ![src] = RemoveAt(loops[src], i)]
            /\ last' = Did("frame", src, FALSE, FALSE)
            /\ UNCHANGED <<attrs, children, cache>>
       ELSE /\ LET dom == render(Dom, loops[src][i].session)
               IN /\ Commit(dom)
                  /\ last' = Did("frame", src, TRUE, dom.sink)
            /\ UNCHANGED loops
    /\ UNCHANGED <<elBox, parentBox, parentIsEl, sessions, job, out>>

\* Variant: one running flag shared by the two sources.
EndListenersShared(lps, src, settled) ==
    [x \in Sources |->
        [i \in 1..Len(lps[x]) |->
            [lps[x][i] EXCEPT !.listening = IF x = src THEN FALSE ELSE @,
                              !.running = IF settled THEN FALSE ELSE @]]]

\* The once-listeners of the end event of src, all closures that registered one.
EndListeners(lps, src, settled) ==
    [lps EXCEPT ![src] =
        [i \in 1..Len(lps[src]) |->
            IF lps[src][i].listening
            THEN [lps[src][i] EXCEPT !.listening = FALSE,
                                     !.running = IF settled THEN FALSE ELSE @]
            ELSE lps[src][i]]]

\* transitionend / animationend dispatched on parentElement.  With no closure
\* of src alive the event has no listener and no loop to act on.
End(src) ==
    /\ loops[src] # << >>
    /\ loops' = EndListeners(loops, src, Settled)
    /\ last' = Did("end", src, FALSE, FALSE)
    /\ UNCHANGED <<elBox, parentBox, parentIsEl, attrs, children, sessions, cache, job, out>>

\* Variant: the observer keeps observing.
stillObserving(session) == session

\* observer.disconnect(): no further entry is delivered, none stays queued.
disconnect(session) == [session EXCEPT !.connected = FALSE, !.pending = FALSE]

\* destroy() of session s (index.ts 317-322): observer.disconnect(), nothing else.
Destroy(s) ==
    /\ ~sessions[s].destroyed
    /\ sessions' = [sessions EXCEPT ![s] = disconnect([@ EXCEPT !.destroyed = TRUE])]
    /\ last' = Idle
    /\ UNCHANGED <<elBox, parentBox, parentIsEl, attrs, children, loops, cache, job, out>>

\* A further setupSvgRenderer({el, paths}) on the same el, after the earlier
\* session was destroyed: a new observer and new listeners; el.render is
\* replaced (index.ts 229-315).  Nothing is rendered by the setup itself.
Setup ==
    /\ Len(sessions) < MaxSessions
    /\ \A s \in 1..Len(sessions) : sessions[s].destroyed
    /\ \E p \in 1..Len(PathsTable) :
         sessions' = Append(sessions,
                            [paths |-> p, connected |-> TRUE, destroyed |-> FALSE,
                             pending |-> (elBox # [width |-> 0, height |-> 0])])
    /\ last' = Did("setup", "none", FALSE, FALSE)
    /\ UNCHANGED <<elBox, parentBox, parentIsEl, attrs, children, loops, cache, job, out>>

Next ==
    \/ ElResize
    \/ ParentResize
    \/ \E s \in 1..Len(sessions) : ResizeNotify(s)
    \/ ManualRender
    \/ \E src \in Sources : Start(src)
    \/ \E src \in Sources : \E i \in 1..MaxLoops : Frame(src, i)
    \/ \E src \in Sources : End(src)
    \/ \E s \in 1..Len(sessions) : Destroy(s)

\* One session on el: setup, events, destroy.
Spec == Init /\ [][Next]_vars

\* destroy() of every session was called.
Destroyed == \A s \in 1..Len(sessions) : sessions[s].destroyed

\* One session in which no start notification arrives after destroy(): every
\* loop alive after the teardown was running when it happened.
NextNoLateStart ==
    \/ ElResize
    \/ ParentResize
    \/ \E s \in 1..Len(sessions) : ResizeNotify(s)
    \/ ManualRender
    \/ \E src \in Sources : ~Destroyed /\ Start(src)
    \/ \E src \in Sources : \E i \in 1..MaxLoops : Frame(src, i)
    \/ \E src \in Sources : End(src)
    \/ \E s \in 1..Len(sessions) : Destroy(s)

SpecNoLateStart == Init /\ [][NextNoLateStart]_vars

\* Setup / destroy cycles on the same el.
NextCycles == Next \/ Setup

SpecCycles == Init /\ [][NextCycles]_vars

----------------------------------------------------------------------------
(* createSvgPaths under study: the operands x and y of the first command   *)
(* of a Paths argument of two sub-paths, and the box, drawn from the sets  *)
(* below; Compile applies createSvgPaths to them.                          *)

\* Plain percentages p%, with p as the fraction n / d.
PercentOperands ==
    <<[text |-> <<"1", "0", "%">>, n |-> 10, d |-> 1],
       [text |-> <<"9", "0", "%">>, n |-> 90, d |-> 1],
       [text |-> <<"5", "0", "%">>, n |-> 50, d |-> 1],
       [text |-> <<"1", "2", ".", "5", "%">>, n |-> 25, d |-> 2],
       [text |-> <<"1", "0", "0", "%">>, n |-> 100, d |-> 1],
       [text |-> <<"-", "2", "5", "%">>, n |-> -25, d |-> 1] >>

\* Arithmetic expressions over literals, width, height, + - * / and ( ).
ExpressionOperands ==
    <<<<"w", "i", "d", "t", "h", "/", "2", "-", "5">>,
       <<"w", "i", "d", "t", "h">>,
       <<"(", "h", "e", "i", "g", "h", "t", ")">>,
       <<"2", "*", "(", "w", "i", "d", "t", "h", "-", "h", "e", "i", "g", "h", "t", ")", "/", "3">>,
       <<"w", "i", "d", "t", "h", "-", "h", "e", "i", "g", "h", "t", "*", "2">>,
       <<"h", "e", "i", "g", "h", "t", "/", "4", "+", "1">>,
       <<"-", "5", "/", "2">> >>

\* Plain numeric literals n, as the fraction n / d.
LiteralOperands ==
    <<[text |-> <<"0">>, n |-> 0, d |-> 1],
       [text |-> <<"5">>, n |-> 5, d |-> 1],
       [text |-> <<"1", "2", ".", "7">>, n |-> 127, d |-> 10],
       [text |-> <<"0", ".", "5">>, n |-> 1, d |-> 2],
       [text |-> <<"0", ".", "0", "0", "0", "0", "0", "0", "1">>, n |-> 1, d |-> 10000000] >>

\* Operands that are no expression of the grammar.
MalformedOperands ==
    <<<<"w", "i", "d", "t", "h", " ", "+">>,
       <<"(", "1", "+", "2">>,
       <<"*", "5">>,
       <<"1", "-", "-", "1">>,
       <<"(", "1", "0">>,
       <<"1", " ", "2">> >>

\* A division by zero, a non-numeric word, an unknown token in an expression.
FailingOperands ==
    <<<<"w", "i", "d", "t", "h", "/", "0">>,
       <<"a", "b", "c">>,
       <<"f", "o", "o", "+", "1">> >>

Range(f) == {f[i] : i \in DOMAIN f}

Texts(table) == {table[i].text : i \in DOMAIN table}

Operands ==
    Texts(PercentOperands) \cup Range(ExpressionOperands) \cup Texts(LiteralOperands)
    \cup Range(MalformedOperands) \cup Range(FailingOperands)

CompileWidths == {0, 1, 3, 200}
CompileHeights == {0, 1, 3, 100}

Chars_10pct == <<"1", "0", "%">>
Chars_50pct == <<"5", "0", "%">>
Chars_90pct == <<"9", "0", "%">>

\* The Paths argument of a job: x and y in the first command, a sibling
\* command after it, and a second sub-path.
JobPaths(j) ==
    << [name |-> "p", path |-> << <<"M", j.x, j.y>>, <<"L", Chars_90pct, Chars_50pct>> >>],
       [name |-> "q", path |-> << <<"M", Chars_10pct, Chars_10pct>> >>] >>

InitCompile ==
    /\ elBox = [width |-> 0, height |-> 0]
    /\ parentBox = elBox
    /\ parentIsEl = TRUE
    /\ attrs = << >>
    /\ children = << >>
    /\ sessions = << [paths |-> 1, connected |-> TRUE, destroyed |-> FALSE, pending |-> FALSE] >>
    /\ loops = [src \in Sources |-> << >>]
    /\ cache = NoCache
    /\ last = Did("setup", "none", FALSE, FALSE)
    /\ job \in [x : Operands, y : Operands, width : CompileWidths, height : CompileHeights]
    /\ out = << >>

\* createSvgPaths({paths, width, height}) of the job.
Compile ==
    /\ out = << >>
    /\ out' = createSvgPaths(JobPaths(job), job.width, job.height)
    /\ UNCHANGED <<elBox, parentBox, parentIsEl, attrs, children, sessions, loops,
                   cache, last, job>>

NextCompile == Compile

SpecCompile == InitCompile /\ [][NextCompile]_vars

----------------------------------------------------------------------------
(* Properties *)

\* RenderCache holds exactly the box b.
CacheIs(b) == cache.set /\ cache.width = b.width /\ cache.height = b.height

\* The closures of src whose running flag is true.
Running(src) == {i \in 1..Len(loops[src]) : loops[src][i].running}

RunningFlags(src) == [i \in 1..Len(loops[src]) |-> loops[src][i].running]

Other(src) == IF src = "transition" THEN "animation" ELSE "transition"

\* C1: an attempt-render, from whatever source, is skipped (no sink
\* invocation, attributes, paths and cache unchanged) exactly when the
\* target's sampled box equals RenderCache in both components; otherwise it
\* commits and the cache becomes the sampled box.  Hence of two attempts in a
\* row at the same box the second never invokes the sink.
C1_SkipIffSameDimensions ==
    [][last'.attempt =>
         /\ last'.sink <=> ~CacheIs(elBox)
         /\ ~last'.sink => UNCHANGED <<attrs, children, cache>>
         /\ last'.sink => (cache'.set /\ cache'.width = elBox.width
                                      /\ cache'.height = elBox.height)
         /\ last.attempt => ~last'.sink]_vars

\* A frame of a polling loop was skipped because the box is the cached one.
C1_Witness ==
    /\ last.op = "frame" /\ last.attempt /\ ~last.sink
    /\ CacheIs(elBox)
    /\ elBox.width # elBox.height

\* C2: once destroy() was called, no resize notification, no frame of a
\* polling loop and no start notification invokes the sink.
C2_NoSinkAfterDestroy ==
    Destroyed => ~(last.sink /\ last.op \in {"resize", "frame", "start"})

\* C3: after destroy() a frame callback of a loop that was running at the
\* teardown neither attempts a render nor schedules another frame.
C3_LoopsStopAfterDestroy == Destroyed => ~(last.op = "frame" /\ last.attempt)

\* C4: after an end notification of a source that arrives while the watched
\* ancestor's box equals RenderCache, no closure of that source is running.
C4_SettledEndStopsSource ==
    \A src \in Sources :
        (last.op = "end" /\ last.src = src /\ CacheIs(parentBox)) => Running(src) = {}

\* C5: the running flag of a closure goes from true to false only in an end
\* notification of its own source received while the watched ancestor's box
\* equals RenderCache; an end notification received while they differ leaves
\* every running flag as it is; a frame of a running closure attempts a render
\* and leaves the closure scheduled.
C5_StoppedOnlyBySettledEnd ==
    [][\A src \in Sources :
         /\ Cardinality(Running(src)') < Cardinality(Running(src))
               => (last'.op = "end" /\ last'.src = src /\ CacheIs(parentBox))
         /\ (last'.op = "end" /\ ~CacheIs(parentBox))
               => RunningFlags(src)' = RunningFlags(src)
         /\ (last'.op = "frame" /\ last'.src = src /\ last'.attempt)
               => loops'[src] = loops[src]]_vars

\* An end notification found the boxes different and its loop runs on.
C5_Witness ==
    /\ last.op = "end" /\ ~CacheIs(parentBox) /\ cache.set
    /\ \E i \in Running(last.src) : ~loops[last.src][i].listening

\* C6: el.render() always invokes the sink.
C6_ManualRenderAlwaysSinks == last.op = "render" => last.sink

\* C7: an attempt-render that directly follows a setup commits.
C7_FirstAttemptCommits == [][(last.op = "setup" /\ last'.attempt) => last'.sink]_vars

\* C8: once a render is committed, el holds exactly one <path> per sub-path
\* of the Paths argument of a session, in order, and each of them was made by
\* the latest committed render.
C8_PathsReplaced ==
    cache.set =>
        \E s \in 1..Len(sessions) :
            LET paths == PathsTable[sessions[s].paths]
            IN /\ Len(children) = Len(paths)
               /\ \A i \in 1..Len(children) :
                     children[i].fresh

\* A frame committed a render after the render of the start notification.
C8_Witness == last.op = "frame" /\ last.sink /\ Len(children) = Len(FirstPaths)

\* C9: an attempt-render made while the target's own box equals RenderCache
\* changes nothing, whatever the box of the watched ancestor is.
C9_DedupOnTargetBox ==
    [][(last'.attempt /\ CacheIs(elBox)) =>
          (~last'.sink /\ UNCHANGED <<attrs, children, cache>>)]_vars

\* A skipped attempt while the ancestor, another element, has another box.
C9_Witness ==
    /\ ~parentIsEl /\ parentBox # elBox
    /\ last.attempt /\ ~last.sink
    /\ CacheIs(elBox)

\* C10: an end notification of one source leaves the closures of the other
\* source as they are.
C10_IndependentSources ==
    [][\A src \in Sources :
         (last'.op = "end" /\ last'.src = src) => loops'[Other(src)] = loops[Other(src)]]_vars

\* A settled animationend stopped the animation loop while a transition loop
\* runs on and a resize entry is waiting.
C10_Witness ==
    /\ last.op = "end" /\ last.src = "animation" /\ CacheIs(parentBox)
    /\ loops["animation"] # << >> /\ Running("animation") = {}
    /\ Running("transition") # {}
    /\ sessions[1].pending

----------------------------------------------------------------------------
(* Properties of createSvgPaths: the reference values are computed with    *)
(* integers, apart from the operators of the compiler.                     *)

\* The integer nearest to n / d between it and zero, d > 0.
Truncate(n, d) == IF n < 0 THEN -((-n) \div d) ELSE n \div d

IntString(k) == IF k < 0 THEN <<"-">> \o toString(-k) ELSE toString(k)

\* The coordinate of the plain percentage p of dim.
PercentCoord(p, dim) == IntString(Truncate(p.n * dim, p.d * 100))

\* The value of ExpressionOperands[e] at (w, h), as the fraction n / d.
ExpressionValue(e, w, h) ==
    CASE e = 1 -> [n |-> w - 10, d |-> 2]
      [] e = 2 -> [n |-> w, d |-> 1]
      [] e = 3 -> [n |-> h, d |-> 1]
      [] e = 4 -> [n |-> 2 * (w - h), d |-> 3]
      [] e = 5 -> [n |-> w - h * 2, d |-> 1]
      [] e = 6 -> [n |-> h + 4, d |-> 4]
      [] e = 7 -> [n |-> -5, d |-> 2]

ExpressionCoord(e, w, h) ==
    IntString(Truncate(ExpressionValue(e, w, h).n, ExpressionValue(e, w, h).d))

Command(cmd, X, Y) == <<cmd, " ">> \o X \o <<",">> \o Y

\* The compiled first sub-path of a job whose operands compile to X and Y.
FirstSubPath(X, Y) ==
    Command("M", X, Y) \o <<" ">>
    \o Command("L", IntString((90 * job.width) \div 100),
                    IntString((50 * job.height) \div 100))

\* The compiled second sub-path of every job.
SecondSubPath ==
    Command("M", IntString((10 * job.width) \div 100),
                 IntString((10 * job.height) \div 100))

Compiled == out # << >>

C12_ExpressionValue ==
    Compiled =>
        \A e, f \in DOMAIN ExpressionOperands :
            (job.x = ExpressionOperands[e] /\ job.y = ExpressionOperands[f])
            => out[1].path = FirstSubPath(ExpressionCoord(e, job.width, job.height),
                                          ExpressionCoord(f, job.width, job.height))

\* C13: a plain numeric literal n compiles to n truncated toward zero, on
\* both axes and whatever the box is.
C13_LiteralTruncated ==
    Compiled =>
        \A m, n \in DOMAIN LiteralOperands :
            (job.x = LiteralOperands[m].text /\ job.y = LiteralOperands[n].text)
            => out[1].path = FirstSubPath(
                   IntString(Truncate(LiteralOperands[m].n, LiteralOperands[m].d)),
                   IntString(Truncate(LiteralOperands[n].n, LiteralOperands[n].d)))

\* C14: a malformed operand compiles to 0, and the other operand of its
\* command, the sibling command and the other sub-path compile to their
\* normal values.
C14_MalformedIsZero ==
    Compiled =>
        \A m \in DOMAIN MalformedOperands : \A p \in DOMAIN PercentOperands :
            /\ (job.x = MalformedOperands[m] /\ job.y = PercentOperands[p].text)
               => /\ out[1].path = FirstSubPath(<<"0">>,
                                      PercentCoord(PercentOperands[p], job.height))
                  /\ out[2].path = SecondSubPath
            /\ (job.x = PercentOperands[p].text /\ job.y = MalformedOperands[m])
               => /\ out[1].path = FirstSubPath(
                                      PercentCoord(PercentOperands[p], job.width), <<"0">>)
                  /\ out[2].path = SecondSubPath

\* C15: an operand whose evaluation fails (a division with a non-finite
\* result, an unknown token, a non-numeric word) compiles to 0.
C15_FailureIsZero ==
    Compiled =>
        \A f, g \in DOMAIN FailingOperands :
            (job.x = FailingOperands[f] /\ job.y = FailingOperands[g])
            => out[1].path = FirstSubPath(<<"0">>, <<"0">>)

----------------------------------------------------------------------------
(* Properties of the scheduler, continued *)

\* C16: at most one polling loop per source is scheduling frames.
C16_OnePollingLoop == \A src \in Sources : Cardinality(Running(src)) <= 1

\* C17: an end notification that arrives while the target's last render is
\* committed for its present box stops every loop of its source that waits
\* for that notification, whatever the box of the watched ancestor is.
C17_StableEndStopsLoop ==
    [][\A src \in Sources :
         (last'.op = "end" /\ last'.src = src /\ CacheIs(elBox))
         => \A i \in 1..Len(loops[src]) :
                loops[src][i].listening => ~loops'[src][i].running]_vars

\* C18: a resize notification is delivered only before destroy(), consumes
\* one waiting entry and attempts one render; after destroy() no entry waits
\* and the resize source attempts no render.
C18_DestroyStopsResize ==
    [][/\ last'.op = "resize"
            => /\ ~Destroyed
               /\ last'.attempt
               /\ \E s \in 1..Len(sessions) : sessions[s].pending /\ ~sessions'[s].pending
       /\ Destroyed' => \A s \in 1..Len(sessions') : ~sessions'[s].pending]_vars

\* The target was resized after destroy() and the render of before stands.
C18_Witness ==
    /\ Destroyed
    /\ cache.set /\ ~CacheIs(elBox)
    /\ TotalLoops = 0
    /\ last = Idle

\* The path data of the <path> elements of el.
Drawn == [i \in 1..Len(children) |-> children[i].d]

\* compile(descriptor, RenderCache.width, RenderCache.height) for the
\* descriptor of the latest session.
CompiledForCache ==
    [i \in 1..Len(PathsTable[sessions[Len(sessions)].paths]) |->
        CompiledTable[sessions[Len(sessions)].paths][cache.width][cache.height][i].path]

\* C19: after an attempt-render the elements drawn are the compilation of
\* the current descriptor at RenderCache; RenderCache and the elements drawn
\* change only in a committed render.
C19_CacheMatchesDrawn ==
    [][/\ (last'.attempt /\ cache'.set) => Drawn' = CompiledForCache'
       /\ (cache' # cache \/ Drawn' # Drawn) => last'.sink]_vars

====
